---------------------------- MODULE Spec2Model ----------------------------
(***************************************************************************)
(* Model of the two MPU6050 visualisers of this repository:                *)
(*   src/mpu60503d.py       3-axis duck  (yaw, pitch, roll; burst of 3)    *)
(*   src/mpu_pitch_roll.py  2-axis plate (pitch, roll; burst of 5, buffer) *)
(*                                                                         *)
(* Text is a sequence of one-character strings.  Python's None is the      *)
(* empty tuple and a float x is the one-element tuple <<x>>, so that the   *)
(* two can be compared.  Angles are whole degrees.  Coordinates are        *)
(* integers: the duck in 1/100 of a unit, the plate in 1/10 of a unit.     *)
(***************************************************************************)
EXTENDS Integers, Sequences, FiniteSets, TLC

(***************************************************************************)
(* Bounds of the model.                                                    *)
(***************************************************************************)
\* longest line handed to parse_line in SpecParse
MaxLen == 6
\* lines the sensor emits in one run of the tick model
MaxLines == 5
\* ticks of the animation timer in one run of the tick model
MaxTicks == 2
\* quarter turns either way of the angles handed to rotation_matrix in SpecRot
MaxQuarter == 4

(***************************************************************************)
(* Program constants.                                                      *)
(***************************************************************************)
WINDOW == 200
K3 == 3
K2 == 5

None == <<>>
Some(x) == <<x>>

(***************************************************************************)
(* str.strip(), str.split(','), float()                                    *)
(***************************************************************************)
IsSpace(c) == c \in {" ", "\n", "\r", "\t"}

Digits == {"0", "1", "2", "3", "4", "5", "6", "7", "8", "9"}

DigitVal(c) ==
  CASE c = "0" -> 0 [] c = "1" -> 1 [] c = "2" -> 2 [] c = "3" -> 3
    [] c = "4" -> 4 [] c = "5" -> 5 [] c = "6" -> 6 [] c = "7" -> 7
    [] c = "8" -> 8 [] c = "9" -> 9

RECURSIVE LStrip(_)
LStrip(s) ==
  IF s # <<>> /\ IsSpace(Head(s)) THEN LStrip(Tail(s)) ELSE s

RECURSIVE RStrip(_)
RStrip(s) ==
  IF s # <<>> /\ IsSpace(s[Len(s)])
  THEN RStrip(SubSeq(s, 1, Len(s) - 1))
  ELSE s

Strip(s) == RStrip(LStrip(s))

\* s.split(','): always at least one field, empty fields kept
RECURSIVE SplitFrom(_, _, _)
SplitFrom(s, cur, acc) ==
  IF s = <<>> THEN Append(acc, cur)
  ELSE IF Head(s) = ","
       THEN SplitFrom(Tail(s), <<>>, Append(acc, cur))
       ELSE SplitFrom(Tail(s), Append(cur, Head(s)), acc)

Split(s) == SplitFrom(s, <<>>, <<>>)

RECURSIVE NatVal(_, _)
NatVal(s, acc) ==
  IF s = <<>> THEN acc ELSE NatVal(Tail(s), 10 * acc + DigitVal(Head(s)))

AllDigits(s) == s # <<>> /\ \A i \in 1..Len(s) : s[i] \in Digits

Unsigned(s) ==
  IF s # <<>> /\ Head(s) \in {"+", "-"} THEN Tail(s) ELSE s

\* float(s) succeeds: surrounding whitespace, one optional sign, digits.
\* (Of Python's float grammar only what the alphabet of the model can spell.)
FloatOK(s) == AllDigits(Unsigned(Strip(s)))

\* float(s) where FloatOK(s)
FloatVal(s) ==
  LET t == Strip(s)
      n == NatVal(Unsigned(t), 0)
  IN  IF Head(t) = "-" THEN 0 - n ELSE n

(***************************************************************************)
(* parse_line of the two programs                                          *)
(***************************************************************************)
\* a bug parse_line3 could have: each field converted under its own try
parse_line3_PerField(line) ==
  LET parts == Split(Strip(line))
      F(i) == IF i <= Len(parts) /\ FloatOK(parts[i])
              THEN Some(FloatVal(parts[i])) ELSE None
  IN  <<F(1), F(2), F(3)>>

\* mpu60503d.py: y, p, r = line.strip().split(','); any exception -> Nones
parse_line3(line) ==
  LET parts == Split(Strip(line))
  IN  IF Len(parts) # 3 THEN <<None, None, None>>
      ELSE IF ~FloatOK(parts[1]) THEN <<None, None, None>>
      ELSE IF ~FloatOK(parts[2]) THEN <<None, None, None>>
      ELSE IF ~FloatOK(parts[3]) THEN <<None, None, None>>
      ELSE <<Some(FloatVal(parts[1])), Some(FloatVal(parts[2])),
             Some(FloatVal(parts[3]))>>

\* mpu_pitch_roll.py: fewer than 2 parts -> Nones; float(parts[0]), float(parts[1])
parse_line2(line) ==
  LET parts == Split(Strip(line))
  IN  IF Len(parts) < 2 THEN <<None, None>>
      ELSE IF ~FloatOK(parts[1]) THEN <<None, None>>
      ELSE IF ~FloatOK(parts[2]) THEN <<None, None>>
      ELSE <<Some(FloatVal(parts[1])), Some(FloatVal(parts[2]))>>

(***************************************************************************)
(* Trigonometry.  np.cos and np.sin of an angle in degrees, times Unit.     *)
(* Exact at the multiples of 90 degrees; at 37 and 53 degrees past a        *)
(* quarter turn the value is the point (4/5, 3/5) resp. (3/5, 4/5) of the   *)
(* unit circle next to the true one, so that cos^2 + sin^2 = 1 exactly     *)
(* where floating point has it within rounding.  Other angles are not      *)
(* modelled.                                                               *)
(***************************************************************************)
BaseCS(b) ==
  CASE b = 0 -> <<5, 0>> [] b = 37 -> <<4, 3>> [] b = 53 -> <<3, 4>>

\* the radius of the circle BaseCS lies on: the model's 1.0
Unit == BaseCS(0)[1]

\* a quarter turn takes (cos, sin) to (-sin, cos)
RECURSIVE Quarter(_, _)
Quarter(cs, q) ==
  IF q = 0 THEN cs ELSE Quarter(<<0 - cs[2], cs[1]>>, q - 1)

CosSin(a) == Quarter(BaseCS((a % 360) % 90), (a % 360) \div 90)

Cos(a) == CosSin(a)[1]
Sin(a) == CosSin(a)[2]

(***************************************************************************)
(* 3x3 matrices as tuples of rows                                          *)
(***************************************************************************)
Dot(A, B, i, j) == A[i][1] * B[1][j] + A[i][2] * B[2][j] + A[i][3] * B[3][j]

MatMul(A, B) ==
  <<<<Dot(A, B, 1, 1), Dot(A, B, 1, 2), Dot(A, B, 1, 3)>>,
    <<Dot(A, B, 2, 1), Dot(A, B, 2, 2), Dot(A, B, 2, 3)>>,
    <<Dot(A, B, 3, 1), Dot(A, B, 3, 2), Dot(A, B, 3, 3)>>>>

Transpose(A) ==
  <<<<A[1][1], A[2][1], A[3][1]>>,
    <<A[1][2], A[2][2], A[3][2]>>,
    <<A[1][3], A[2][3], A[3][3]>>>>

Det(A) ==
    A[1][1] * (A[2][2] * A[3][3] - A[2][3] * A[3][2])
  - A[1][2] * (A[2][1] * A[3][3] - A[2][3] * A[3][1])
  + A[1][3] * (A[2][1] * A[3][2] - A[2][2] * A[3][1])

Scaled(k) == <<<<k, 0, 0>>, <<0, k, 0>>, <<0, 0, k>>>>

(***************************************************************************)
(* rotation_matrix of mpu60503d.py: Rz @ Ry @ Rx, times Unit^3              *)
(***************************************************************************)
Rz(y) == <<<<Cos(y), 0 - Sin(y), 0>>,
           <<Sin(y), Cos(y), 0>>,
           <<0, 0, Unit>>>>

Ry(p) == <<<<Cos(p), 0, Sin(p)>>,
           <<0, Unit, 0>>,
           <<0 - Sin(p), 0, Cos(p)>>>>

\* a sign slip in Rx: +sin in the upper off-diagonal entry
Rx_SignSlip(r) == <<<<Unit, 0, 0>>,
                    <<0, Cos(r), Sin(r)>>,
                    <<0, Sin(r), Cos(r)>>>>

Rx(r) == <<<<Unit, 0, 0>>,
           <<0, Cos(r), 0 - Sin(r)>>,
           <<0, Sin(r), Cos(r)>>>>

rotation_matrix(yaw, pitch, roll) == MatMul(MatMul(Rz(yaw), Ry(pitch)), Rx(roll))

Scale3 == Unit * Unit * Unit

(***************************************************************************)
(* rotation_matrix of mpu_pitch_roll.py: Ry @ Rx, times Unit^2              *)
(***************************************************************************)
Rx2(roll) == <<<<Unit, 0, 0>>,
               <<0, Cos(roll), 0 - Sin(roll)>>,
               <<0, Sin(roll), Cos(roll)>>>>

Ry2(pitch) == <<<<Cos(pitch), 0, Sin(pitch)>>,
                <<0, Unit, 0>>,
                <<0 - Sin(pitch), 0, Cos(pitch)>>>>

rotation_matrix2(pitch, roll) == MatMul(Ry2(pitch), Rx2(roll))

Scale2 == Unit * Unit

\* v @ R.T for one vertex v, R carrying the factor scale
Coord(v, R, scale, i) ==
  (v[1] * R[i][1] + v[2] * R[i][2] + v[3] * R[i][3]) \div scale

Rotate(v, R, scale) ==
  <<Coord(v, R, scale, 1), Coord(v, R, scale, 2), Coord(v, R, scale, 3)>>

(***************************************************************************)
(* Meshes.  A mesh is a tuple of faces, a face a tuple of vertices.  The   *)
(* sphere is built at res = 3 and the cone at res = 4, where every grid    *)
(* angle is a multiple of 90 degrees (the programs' res = 12 needs         *)
(* irrational coordinates); the update treats every vertex alike.           *)
(***************************************************************************)
\* create_sphere(center, radius, res=3): phi in {0, 90, 180}, theta in {0, 180, 360}
SphereVert(center, radius, phi, theta) ==
  <<center[1] + (radius * Sin(phi) * Cos(theta)) \div (Unit * Unit),
    center[2] + (radius * Sin(phi) * Sin(theta)) \div (Unit * Unit),
    center[3] + (radius * Cos(phi)) \div Unit>>

create_sphere(center, radius) ==
  LET V(i, j) == SphereVert(center, radius, 90 * i, 180 * j)
      Quad(n) == LET i == n \div 2  j == n % 2
                 IN  <<V(i, j), V(i + 1, j), V(i + 1, j + 1), V(i, j + 1)>>
  IN  [n \in 1..4 |-> Quad(n - 1)]

\* create_cone(base_center, height, radius, res=4): theta in {0, 90, 180, 270}
create_cone(base_center, height, radius) ==
  LET B(i) == <<base_center[1] + (radius * Cos(90 * i)) \div Unit,
                base_center[2] + (radius * Sin(90 * i)) \div Unit,
                base_center[3]>>
      tip == <<base_center[1], base_center[2], base_center[3] + height>>
  IN  [n \in 1..4 |-> <<B(n - 1), B(n % 4), tip>>]

body_faces == create_sphere(<<0, 0, 0>>, 25)
head_faces == create_sphere(<<0, 0, 35>>, 12)
beak_faces == create_cone(<<0, 18, 35>>, 7, 7)

cube_definition ==
  << <<-10, -10, -1>>, <<-10, 10, -1>>, <<10, 10, -1>>, <<10, -10, -1>>,
     <<-10, -10, 1>>, <<-10, 10, 1>>, <<10, 10, 1>>, <<10, -10, 1>> >>

\* index pairs into cube_definition, counted from 1
edges ==
  << <<1, 2>>, <<2, 3>>, <<3, 4>>, <<4, 1>>,
     <<5, 6>>, <<6, 7>>, <<7, 8>>, <<8, 5>>,
     <<1, 5>>, <<2, 6>>, <<3, 7>>, <<4, 8>> >>

(***************************************************************************)
(* The lines the sensor can put on the wire in the tick model.              *)
(***************************************************************************)
LineZero3 == <<"0", ",", "0", ",", "0", "\n">>
LineTurn3 == <<"9", "0", ",", "1", "8", "0", ",", "0", "\n">>
LineZero2 == <<"0", ",", "0", "\n">>
LineJunk  == <<"x", "\n">>

Alphabet == {"0", "9", "-", ",", " ", "x"}

Texts(n) == UNION {[1..k -> Alphabet] : k \in 0..n}

(***************************************************************************)
(* State                                                                   *)
(***************************************************************************)
\* A variable of the program that does not run is the empty tuple.
VARIABLES
  mode,       \* which program runs: "3axis" (mpu60503d.py), "2axis" (mpu_pitch_roll.py)
  pending,    \* ser: the lines received and not yet read
  emitted,    \* lines the sensor emitted since the last tick
  sent,       \* lines the sensor emitted in all
  ticks,      \* calls of update so far
  body_poly,  \* 3axis: the vertices the renderer holds for each collection
  head_poly,
  beak_poly,
  texts,      \* 3axis: yaw_text, pitch_text, roll_text
  pitch_buf,  \* 2axis
  roll_buf,   \* 2axis
  lines,      \* 2axis: the data of the 12 Line3D objects
  burst,      \* history: what each readline of the last update returned
  path,       \* history: "Applying" when the last update reached its drawing code
  applied,    \* history: the locals (yaw,) pitch, roll the last drawing code used
  pushed,     \* history, 2axis: every sample appended to the buffers, in order
  arg,        \* input of the function applied in SpecParse / SpecRot
  res         \* its result

vars == <<mode, pending, emitted, sent, ticks, body_poly, head_poly, beak_poly,
          texts, pitch_buf, roll_buf, lines, burst, path, applied, pushed,
          arg, res>>

duck == <<body_poly, head_poly, beak_poly, texts>>
plate == <<pitch_buf, roll_buf, lines, pushed>>

K == IF mode = "3axis" THEN K3 ELSE K2

(***************************************************************************)
(* mpu_pitch_roll.py, the drawing code of update (lines 105-115)            *)
(***************************************************************************)
Render2(pitch, roll) ==
  LET R == rotation_matrix2(pitch, roll)
      rotated == [k \in 1..Len(cube_definition) |->
                    Rotate(cube_definition[k], R, Scale2)]
  IN  [idx \in 1..Len(edges) |->
         <<rotated[edges[idx][1]], rotated[edges[idx][2]]>>]

\* the buffers after n0 earlier pushes (a state the program reaches)
Earlier(n0) == [i \in 1..n0 |-> <<90 * (i % 4), 90 * (i % 3)>>]

InitTick ==
  /\ mode \in {"3axis", "2axis"}
  /\ pending = <<>>
  /\ emitted = 0
  /\ sent = 0
  /\ ticks = 0
  /\ body_poly = IF mode = "3axis" THEN body_faces ELSE <<>>
  /\ head_poly = IF mode = "3axis" THEN head_faces ELSE <<>>
  /\ beak_poly = IF mode = "3axis" THEN beak_faces ELSE <<>>
  /\ texts = IF mode = "3axis" THEN <<<<>>, <<>>, <<>>>> ELSE <<>>
  /\ pushed \in IF mode = "2axis" THEN {<<>>, Earlier(WINDOW - 1)} ELSE {<<>>}
  /\ pitch_buf = [i \in 1..Len(pushed) |-> pushed[i][1]]
  /\ roll_buf = [i \in 1..Len(pushed) |-> pushed[i][2]]
  /\ lines = IF mode = "3axis" THEN <<>>
             ELSE IF pushed = <<>> THEN [idx \in 1..Len(edges) |-> <<>>]
             ELSE Render2(pushed[Len(pushed)][1], pushed[Len(pushed)][2])
  /\ burst = <<>>
  /\ path = "Idle"
  /\ applied = <<>>
  /\ arg = <<>>
  /\ res = <<>>

\* 3axis: two samples and a line that does not decode;
\* 2axis: a sample with a field too many, a sample, a line that does not decode
WireLines == IF mode = "3axis" THEN {LineZero3, LineTurn3, LineJunk}
             ELSE {LineTurn3, LineZero2, LineJunk}

(***************************************************************************)
(* The sensor writes one line to the port.                                  *)
(***************************************************************************)
Emit(l) ==
  /\ sent < MaxLines
  /\ emitted < K
  /\ pending' = Append(pending, l)
  /\ emitted' = emitted + 1
  /\ sent' = sent + 1
  /\ UNCHANGED <<mode, ticks, duck, plate, burst, path, applied, arg, res>>

\* ser.readline(): the next line, or "" when the timeout passes with none
readline(pend) == IF pend = <<>> THEN <<>> ELSE Head(pend)
Rest(pend) == IF pend = <<>> THEN <<>> ELSE Tail(pend)

(***************************************************************************)
(* mpu60503d.py update, lines 100-126                                      *)
(***************************************************************************)
\* the bug `if yaw:` (0.0 is falsy)
Valid3_Truthy(parsed) == parsed[1] # None /\ parsed[1][1] # 0

\* `if yaw is not None`
Valid3(parsed) == parsed[1] # None

\* a bug: the break forgotten, the last valid line of the burst used
RECURSIVE Loop3_NoBreak(_, _, _)
Loop3_NoBreak(i, pend, raws) ==
  IF i > K3
  THEN LET ok == {j \in 1..Len(raws) : Valid3(parse_line3(raws[j]))}
           last == CHOOSE j \in ok : \A k \in ok : k <= j
       IN  IF ok = {} THEN [found |-> FALSE, ypr |-> <<None, None, None>>,
                            pend |-> pend, raws |-> raws]
           ELSE [found |-> TRUE, ypr |-> parse_line3(raws[last]),
                 pend |-> pend, raws |-> raws]
  ELSE Loop3_NoBreak(i + 1, Rest(pend), Append(raws, readline(pend)))

\* a bug: the for-else forgotten, the drawing code reached with zero angles
RECURSIVE Loop3_NoElse(_, _, _)
Loop3_NoElse(i, pend, raws) ==
  IF i > K3 THEN [found |-> TRUE, ypr |-> <<Some(0), Some(0), Some(0)>>,
                  pend |-> pend, raws |-> raws]
  ELSE LET raw == readline(pend)
           parsed == parse_line3(raw)
       IN  IF Valid3(parsed)
           THEN [found |-> TRUE, ypr |-> parsed,
                 pend |-> Rest(pend), raws |-> Append(raws, raw)]
           ELSE Loop3_NoElse(i + 1, Rest(pend), Append(raws, raw))

\* for _ in range(3): ... break / else: return
RECURSIVE Loop3(_, _, _)
Loop3(i, pend, raws) ==
  IF i > K3 THEN [found |-> FALSE, ypr |-> <<None, None, None>>,
                  pend |-> pend, raws |-> raws]
  ELSE LET raw == readline(pend)
           parsed == parse_line3(raw)
       IN  IF Valid3(parsed)
           THEN [found |-> TRUE, ypr |-> parsed,
                 pend |-> Rest(pend), raws |-> Append(raws, raw)]
           ELSE Loop3(i + 1, Rest(pend), Append(raws, raw))

\* f"Yaw: {yaw:.1f}" of a whole number of degrees
Fmt(label, x) == [label |-> label, tenths |-> 10 * x]

\* rotate_poly: poly.get_verts() (taken to return what set_verts stored last,
\* at first the faces the collection was built from), each face @ R.T
rotate_poly(poly, R) ==
  [f \in 1..Len(poly) |-> [k \in 1..Len(poly[f]) |-> Rotate(poly[f][k], R, Scale3)]]

update3 ==
  /\ mode = "3axis"
  /\ ticks < MaxTicks
  /\ ticks' = ticks + 1
  /\ emitted' = 0
  /\ \E r \in {Loop3(1, pending, <<>>)} :
         /\ pending' = r.pend
         /\ burst' = r.raws
         /\ IF ~r.found
            THEN /\ path' = "Skipping"
                 /\ UNCHANGED <<duck, applied>>
            ELSE LET yaw == r.ypr[1][1]
                     pitch == r.ypr[2][1]
                     roll == r.ypr[3][1]
                     R == rotation_matrix(yaw, pitch, roll)
                 IN  /\ path' = "Applying"
                     /\ applied' = <<yaw, pitch, roll>>
                     /\ texts' = <<Fmt("Yaw", yaw), Fmt("Pitch", pitch),
                                   Fmt("Roll", roll)>>
                     /\ body_poly' = rotate_poly(body_poly, R)
                     /\ head_poly' = rotate_poly(head_poly, R)
                     /\ beak_poly' = rotate_poly(beak_poly, R)
  /\ UNCHANGED <<mode, sent, plate, arg, res>>

(***************************************************************************)
(* mpu_pitch_roll.py update, lines 86-117                                   *)
(***************************************************************************)
\* a bug: the eviction forgotten
PushBoth_NoEvict(pb, rb, pitch, roll) == <<Append(pb, pitch), Append(rb, roll)>>

\* a bug: pop() for pop(0), the newest sample evicted
PushBoth_PopLast(pb, rb, pitch, roll) ==
  LET p1 == Append(pb, pitch)
      r1 == Append(rb, roll)
  IN  IF Len(p1) > WINDOW
      THEN <<SubSeq(p1, 1, Len(p1) - 1), SubSeq(r1, 1, Len(r1) - 1)>>
      ELSE <<p1, r1>>

\* append to both; if len(pitch_buf) > WINDOW: pop(0) from both
PushBoth(pb, rb, pitch, roll) ==
  LET p1 == Append(pb, pitch)
      r1 == Append(rb, roll)
  IN  IF Len(p1) > WINDOW THEN <<Tail(p1), Tail(r1)>> ELSE <<p1, r1>>

\* a bug: a read that timed out is repeated without using up an attempt
\* (given up after 2 * K2 reads, where the program would go on)
RECURSIVE Loop2_FreeRetry(_, _, _, _, _, _)
Loop2_FreeRetry(i, pend, pb, rb, raws, hist) ==
  IF i > K2 THEN [pend |-> pend, pb |-> pb, rb |-> rb, raws |-> raws, hist |-> hist]
  ELSE LET raw == readline(pend)
           parsed == parse_line2(raw)
           seen == Append(raws, raw)
       IN  IF raw = <<>>
           THEN Loop2_FreeRetry(IF Len(seen) < 2 * K2 THEN i ELSE i + 1,
                                Rest(pend), pb, rb, seen, hist)
           ELSE IF parsed[1] = None
           THEN Loop2_FreeRetry(i + 1, Rest(pend), pb, rb, seen, hist)
           ELSE LET b == PushBoth(pb, rb, parsed[1][1], parsed[2][1])
                IN  Loop2_FreeRetry(i + 1, Rest(pend), b[1], b[2], seen,
                                    Append(hist, <<parsed[1][1], parsed[2][1]>>))

\* for _ in range(5): every line read, every valid one pushed
RECURSIVE Loop2(_, _, _, _, _, _)
Loop2(i, pend, pb, rb, raws, hist) ==
  IF i > K2 THEN [pend |-> pend, pb |-> pb, rb |-> rb, raws |-> raws, hist |-> hist]
  ELSE LET raw == readline(pend)
           parsed == parse_line2(raw)
           seen == Append(raws, raw)
       IN  IF raw = <<>>
           THEN Loop2(i + 1, Rest(pend), pb, rb, seen, hist)
           ELSE IF parsed[1] = None
           THEN Loop2(i + 1, Rest(pend), pb, rb, seen, hist)
           ELSE LET b == PushBoth(pb, rb, parsed[1][1], parsed[2][1])
                IN  Loop2(i + 1, Rest(pend), b[1], b[2], seen,
                          Append(hist, <<parsed[1][1], parsed[2][1]>>))

update2 ==
  /\ mode = "2axis"
  /\ ticks < MaxTicks
  /\ ticks' = ticks + 1
  /\ emitted' = 0
  /\ \E r \in {Loop2(1, pending, pitch_buf, roll_buf, <<>>, pushed)} :
         /\ pending' = r.pend
         /\ burst' = r.raws
         /\ pitch_buf' = r.pb
         /\ roll_buf' = r.rb
         /\ pushed' = r.hist
         /\ IF r.pb = <<>>
            THEN /\ path' = "Skipping"
                 /\ UNCHANGED <<lines, applied>>
            ELSE LET pitch == r.pb[Len(r.pb)]
                     roll == r.rb[Len(r.rb)]
                 IN  /\ path' = "Applying"
                     /\ applied' = <<pitch, roll>>
                     /\ lines' = Render2(pitch, roll)
  /\ UNCHANGED <<mode, sent, duck, arg, res>>

Next == (\E l \in WireLines : Emit(l)) \/ update3 \/ update2

Spec == InitTick /\ [][Next]_vars

(***************************************************************************)
(* parse_line applied to every text of at most MaxLen characters            *)
(***************************************************************************)
\* neither program runs: no port, no meshes, no buffers
Idle ==
  /\ mode = "none" /\ pending = <<>> /\ emitted = 0 /\ sent = 0 /\ ticks = 0
  /\ body_poly = <<>> /\ head_poly = <<>> /\ beak_poly = <<>> /\ texts = <<>>
  /\ pitch_buf = <<>> /\ roll_buf = <<>> /\ pushed = <<>> /\ lines = <<>>
  /\ burst = <<>> /\ path = "Idle" /\ applied = <<>>

tick_vars == <<mode, pending, emitted, sent, ticks, duck, plate, burst, path,
               applied>>

InitParse == Idle /\ arg \in Texts(MaxLen) /\ res = <<>>

Decode3 ==
  /\ res = <<>>
  /\ res' = [fn |-> "parse_line3", out |-> parse_line3(arg)]
  /\ UNCHANGED <<arg, tick_vars>>

Decode2 ==
  /\ res = <<>>
  /\ res' = [fn |-> "parse_line2", out |-> parse_line2(arg)]
  /\ UNCHANGED <<arg, tick_vars>>

NextParse == Decode3 \/ Decode2

SpecParse == InitParse /\ [][NextParse]_vars

(***************************************************************************)
(* rotation_matrix applied to angles within MaxQuarter quarter turns        *)
(***************************************************************************)
Angles == {90 * q + b : q \in (0 - MaxQuarter)..MaxQuarter, b \in {0, 37, 53}}

InitRot == Idle /\ arg \in Angles \X Angles \X Angles /\ res = <<>>

Compose3 ==
  /\ res = <<>>
  /\ res' = [fn |-> "rotation_matrix3", scale |-> Scale3,
             out |-> rotation_matrix(arg[1], arg[2], arg[3])]
  /\ UNCHANGED <<arg, tick_vars>>

Compose2 ==
  /\ res = <<>>
  /\ res' = [fn |-> "rotation_matrix2", scale |-> Scale2,
             out |-> rotation_matrix2(arg[2], arg[3])]
  /\ UNCHANGED <<arg, tick_vars>>

NextRot == Compose3 \/ Compose2

SpecRot == InitRot /\ [][NextRot]_vars

(***************************************************************************)
(* What the claims speak of.  The sample a wire line spells is written     *)
(* down here line by line, not taken from parse_line.                      *)
(***************************************************************************)
Sample3(raw) ==
  CASE raw = LineZero3 -> <<0, 0, 0>>
    [] raw = LineTurn3 -> <<90, 180, 0>>
    [] OTHER -> <<>>

Sample2(raw) ==
  CASE raw = LineTurn3 -> <<90, 180>>
    [] raw = LineZero2 -> <<0, 0>>
    [] OTHER -> <<>>

Meaning(raw) == IF mode = "3axis" THEN Sample3(raw) ELSE Sample2(raw)

\* the reads of a burst b that returned a well-formed line
ValidIn(b) == {i \in 1..Len(b) : Meaning(b[i]) # <<>>}
First(S) == CHOOSE i \in S : \A k \in S : i <= k
Last(S) == CHOOSE i \in S : \A k \in S : k <= i

Ticked == path # "Idle"
Zero == IF mode = "3axis" THEN <<0, 0, 0>> ELSE <<0, 0>>

\* what the renderer holds
Shown == <<body_poly, head_poly, beak_poly, texts, lines>>

(***************************************************************************)
(* C1: every mesh handed to the renderer is its original topology with     *)
(* every vertex multiplied by the rotation matrix of the current sample     *)
(* only; earlier ticks leave no trace.                                      *)
(***************************************************************************)
C1_CurrentRotationOnly ==
  applied # <<>> =>
    IF mode = "3axis"
    THEN LET R == rotation_matrix(applied[1], applied[2], applied[3])
         IN  /\ body_poly = rotate_poly(body_faces, R)
             /\ head_poly = rotate_poly(head_faces, R)
             /\ beak_poly = rotate_poly(beak_faces, R)
    ELSE lines = Render2(applied[1], applied[2])

(***************************************************************************)
(* C2, as claimed: in both programs the burst ends at the first            *)
(* well-formed line (no read follows it) and that line's sample is the one *)
(* applied.                                                                *)
(***************************************************************************)
C2_StopsAtFirstValid ==
  (Ticked /\ ValidIn(burst) # {}) =>
    /\ First(ValidIn(burst)) = Len(burst)
    /\ path = "Applying"
    /\ applied = Meaning(burst[First(ValidIn(burst))])

(***************************************************************************)
(* C2, amended: the 3-axis program stops its burst at the first            *)
(* well-formed line and applies that line's sample; the 2-axis program     *)
(* always issues all K2 reads and applies the sample of the last           *)
(* well-formed line of the burst.  Either way a tick with a well-formed    *)
(* line takes the Applying path once.                                      *)
(***************************************************************************)
C2_BurstEnd ==
  (Ticked /\ ValidIn(burst) # {}) =>
    /\ path = "Applying"
    /\ IF mode = "3axis"
       THEN /\ First(ValidIn(burst)) = Len(burst)
            /\ applied = Meaning(burst[First(ValidIn(burst))])
       ELSE /\ Len(burst) = K2
            /\ applied = Meaning(burst[Last(ValidIn(burst))])

\* K = 3, the lines read are malformed, malformed, well-formed
C2_Witness ==
  /\ mode = "3axis"
  /\ Len(burst) = 3
  /\ ValidIn(burst) = {3}
  /\ burst[1] = LineJunk /\ burst[2] = LineJunk
  /\ path = "Applying"

(***************************************************************************)
(* C3, as claimed: a tick none of whose reads returns a well-formed line   *)
(* takes the Skipping path (its drawing code is not reached) and leaves    *)
(* meshes and overlay as they were.                                        *)
(***************************************************************************)
C3_SkipNoRender ==
  [][(ticks' # ticks /\ ValidIn(burst') = {}) =>
       (path' = "Skipping" /\ Shown' = Shown)]_vars

(***************************************************************************)
(* C3, amended: such a tick leaves meshes, overlay and buffers exactly as  *)
(* they were.  The 3-axis program does not reach its drawing code; the     *)
(* 2-axis program skips it only while its buffer is empty and otherwise    *)
(* draws the latest buffered sample again.                                 *)
(***************************************************************************)
C3_SkipKeepsState ==
  [][(ticks' # ticks /\ ValidIn(burst') = {}) =>
       /\ Shown' = Shown
       /\ pitch_buf' = pitch_buf /\ roll_buf' = roll_buf
       /\ path' = IF mode = "3axis" \/ pitch_buf = <<>>
                  THEN "Skipping" ELSE "Applying"]_vars

\* a tick that found nothing, after a tick that applied "90,180,0"
C3_Witness ==
  /\ mode = "3axis"
  /\ path = "Skipping"
  /\ Len(burst) = K3
  /\ applied = <<90, 180, 0>>

(***************************************************************************)
(* C4: pitch_buf and roll_buf never hold more than WINDOW samples.          *)
(***************************************************************************)
C4_BufferBounded == Len(pitch_buf) <= WINDOW /\ Len(roll_buf) <= WINDOW

\* the buffer is full and one sample has been evicted
C4_Witness == Len(pitch_buf) = WINDOW /\ Len(pushed) = WINDOW + 1

(***************************************************************************)
(* C5: a tick issues at most K reads (3 resp. 5); a read that timed out    *)
(* is one of them.                                                         *)
(***************************************************************************)
C5_AtMostKReads == Ticked => Len(burst) <= K

\* a tick on a silent port: K2 reads, every one timed out
C5_Witness ==
  /\ mode = "2axis"
  /\ Len(burst) = K2
  /\ \A i \in 1..Len(burst) : burst[i] = <<>>

(***************************************************************************)
(* C6: parse_line is all-or-nothing.  A line that has a non-numeric or     *)
(* empty required field, or the wrong number of fields (3-field mode: not  *)
(* exactly 3; 2-field mode: fewer than 2), gives None in every component;  *)
(* no result mixes None and numbers; in 2-field mode what follows the      *)
(* second field is ignored.                                                *)
(* A numeral is written out here as a shape of text, apart from FloatOK:   *)
(* blanks, an optional sign, one or more digits, blanks.                   *)
(***************************************************************************)
Numeral(f) ==
  \E a, b \in 1..Len(f) :
    /\ a <= b
    /\ \A i \in 1..(a - 1) : f[i] = " "
    /\ \A i \in (b + 1)..Len(f) : f[i] = " "
    /\ \A i \in (a + 1)..b : f[i] \in Digits
    /\ \/ f[a] \in Digits
       \/ f[a] \in {"+", "-"} /\ a < b

\* the fields of a line: the text between commas, the line's own blanks dropped
Fields(line) == Split(Strip(line))

Joined(f, g) == f \o <<",">> \o g

C6_AllOrNothing ==
  res # <<>> =>
    LET f == Fields(arg)
        n == Len(res.out)
        required == IF res.fn = "parse_line3" THEN 3 ELSE 2
        countOK == IF res.fn = "parse_line3" THEN Len(f) = 3 ELSE Len(f) >= 2
        wellFormed == countOK /\ \A i \in 1..required : Numeral(f[i])
    IN  /\ n = required
        /\ \/ \A i \in 1..n : res.out[i] = None
           \/ \A i \in 1..n : res.out[i] # None
        /\ ~wellFormed => \A i \in 1..n : res.out[i] = None
        /\ wellFormed => \A i \in 1..n : res.out[i] # None
        /\ (res.fn = "parse_line2" /\ Len(f) >= 2) =>
              res.out = parse_line2(Joined(f[1], f[2]))

\* 3-field mode, three fields, the first a numeral and the last not
C6_Witness ==
  /\ res # <<>>
  /\ res.fn = "parse_line3"
  /\ Len(Fields(arg)) = 3
  /\ Numeral(Fields(arg)[1])
  /\ ~Numeral(Fields(arg)[3])
  /\ res.out = <<None, None, None>>

(***************************************************************************)
(* C7: with at most K lines emitted between consecutive ticks (the guard   *)
(* of Emit), the lines pending in the port stay bounded: a tick drains     *)
(* what arrived, so never more than K are waiting.                          *)
(***************************************************************************)
C7_BacklogBounded == Len(pending) <= K

(***************************************************************************)
(* C8: after n pushes the buffers hold exactly the last min(n, WINDOW)     *)
(* pushed samples in arrival order, and the sample the drawing code uses   *)
(* is the one pushed last.                                                 *)
(***************************************************************************)
C8_FifoLatest ==
  mode = "2axis" =>
    LET n == Len(pushed)
        m == IF n < WINDOW THEN n ELSE WINDOW
    IN  /\ pitch_buf = [i \in 1..m |-> pushed[n - m + i][1]]
        /\ roll_buf = [i \in 1..m |-> pushed[n - m + i][2]]
        /\ path = "Applying" => /\ applied = pushed[n]
                                /\ lines = Render2(pushed[n][1], pushed[n][2])

\* two samples evicted, the last two pushes differ
C8_Witness ==
  /\ mode = "2axis"
  /\ Len(pushed) >= WINDOW + 2
  /\ pushed[Len(pushed)] # pushed[Len(pushed) - 1]
  /\ path = "Applying"

(***************************************************************************)
(* C9: the matrix rotation_matrix returns is orthonormal with determinant  *)
(* +1 (R R^T = I, det R = 1; here with the factor the integers carry),      *)
(* in the 3-axis and in the 2-axis composition.                             *)
(***************************************************************************)
C9_Orthonormal ==
  res # <<>> =>
    /\ MatMul(res.out, Transpose(res.out)) = Scaled(res.scale * res.scale)
    /\ Det(res.out) = res.scale * res.scale * res.scale

\* yaw beyond a full turn, pitch at -90, roll at 180
C9_Witness ==
  /\ res # <<>>
  /\ res.fn = "rotation_matrix3"
  /\ arg = <<397, -90, 180>>

(***************************************************************************)
(* C10, as claimed: a tick that reads a well-formed all-zero line takes    *)
(* the Applying path with the zero sample.                                  *)
(***************************************************************************)
ZeroIn(b) == {i \in ValidIn(b) : Meaning(b[i]) = Zero}

C10_ZeroApplied ==
  (Ticked /\ ZeroIn(burst) # {}) => (path = "Applying" /\ applied = Zero)

(***************************************************************************)
(* C10, amended: a tick that reads a well-formed all-zero line takes the   *)
(* Applying path, never the Skipping path; it applies the zero sample      *)
(* unless (2-axis program) a later well-formed line of the same burst      *)
(* supersedes it, and then the zero sample is still pushed to the buffer.  *)
(***************************************************************************)
C10_ZeroNotFailure ==
  (Ticked /\ ZeroIn(burst) # {}) =>
    /\ path = "Applying"
    /\ Last(ValidIn(burst)) \in ZeroIn(burst) => applied = Zero
    /\ mode = "2axis" =>
         \E j \in 1..Len(pushed) :
            /\ j > Len(pushed) - Cardinality(ValidIn(burst))
            /\ pushed[j] = Zero

\* a second tick read "0,0,0" and applied it
C10_Witness ==
  /\ mode = "3axis"
  /\ ticks = 2
  /\ burst = <<LineZero3>>
  /\ path = "Applying"
  /\ applied = <<0, 0, 0>>
  /\ texts[1] = Fmt("Yaw", 0)

=============================================================================
